---------------------------- MODULE Spec2Model ----------------------------
(***************************************************************************)
(* Model of aten/src/ATen/native/mps/operations/Gamma.mm: the Metal gamma  *)
(* kernels (digamma, trigamma, polygamma, lgamma), the library / pipeline  *)
(* caches (compileGammaOpsLibrary, getCPLState) and the three operator     *)
(* entry points lgamma_out_mps, digamma_out_mps and polygamma_out_mps.     *)
(*                                                                         *)
(* Three specifications share the variables:                               *)
(*   Spec        one host thread issuing whole operator calls              *)
(*   SpecConc    several threads interleaving the steps of getCPLState     *)
(*   SpecKernel  one kernel lane applied to one input element              *)
(***************************************************************************)
EXTENDS Integers, Sequences, FiniteSets, TLC

\* ------------------------------------------------------------------ bounds
MaxCalls == 2        \* operator calls of one behaviour of Spec
MaxLen == 2          \* low word of an element count
MaxHi == 1           \* high word of an element count (units of 2^32)
MaxMag == 9          \* largest magnitude of a kernel input, in units of 1/Den
MaxOrder == 3        \* largest polygamma order of an operator call
MaxKernelOrder == 5  \* largest order bound to a kernel lane in SpecKernel
NThreads == 2        \* threads of SpecConc
MaxThreadCalls == 2  \* getCPLState calls per thread in SpecConc

\* ------------------------------------------------------ single precision
\* A float is NaN, a signed infinity or a signed finite value sign*mag/Den;
\* sign is the sign bit, so Fin(-1, 0) is -0.0 and Fin(1, 0) is +0.0.
Den == 4

NaNv == [kind |-> "nan", sign |-> 1, mag |-> 0]

Inf(s) == [kind |-> "inf", sign |-> s, mag |-> 0]

Fin(s, m) == [kind |-> "fin", sign |-> s, mag |-> m]

FloatVals ==
  {NaNv, Inf(1), Inf(-1)} \cup {Fin(s, m) : s \in {-1, 1}, m \in 0..MaxMag}

IsZero(x) == x.kind = "fin" /\ x.mag = 0

\* x < 0 : false for NaN and for both zeros
LtZero(x) == x.kind # "nan" /\ x.sign = -1 /\ ~IsZero(x)

\* x > 0
GtZero(x) == x.kind # "nan" /\ x.sign = 1 /\ ~IsZero(x)

\* x == y : false when either is NaN, true for +0 == -0
FEq(x, y) ==
  /\ x.kind # "nan"
  /\ y.kind # "nan"
  /\ \/ IsZero(x) /\ IsZero(y)
     \/ x = y

\* trunc(x): round toward zero, keeping the sign bit
Trunc(x) ==
  IF x.kind = "fin" THEN Fin(x.sign, (x.mag \div Den) * Den) ELSE x

\* fract(x) = x - floor(x); inf - inf is NaN
Fract(x) ==
  IF x.kind = "fin" THEN Fin(1, (x.sign * x.mag) % Den) ELSE NaNv

\* 1 - x
OneMinus(x) ==
  IF x.kind = "nan" THEN NaNv
  ELSE IF x.kind = "inf" THEN Inf(-x.sign)
  ELSE LET v == Den - x.sign * x.mag
       IN  IF v < 0 THEN Fin(-1, -v) ELSE Fin(1, v)

\* -x : flips the sign bit
Neg(x) == [x EXCEPT !.sign = -x.sign]

\* copysign(INFINITY, y)
CopysignInf(y) == Inf(y.sign)

\* float n = order  (order >= 0)
FloatOfInt(n) == Fin(1, n * Den)

\* ---------------------------------------------------------------- kernels
\* The value a lane stores is kept symbolic: which formula of the kernel
\* source produced it (form), its sign factor (sgn) and the arguments the
\* formula was applied to (a, b).
NoArg == NaNv

Val(form, sgn, a, b) == [form |-> form, sgn |-> sgn, a |-> a, b |-> b]

\* the content of an output element no kernel has written
InitVal == Val("init", 0, NoArg, NoArg)

lgamma(x) == Val("LogGamma", 0, x, NoArg)

\* int / int of two int literals a >= 0, b > 0: the quotient, truncated
IntDiv(a, b) == a \div b

\* x < 0.5 : false for NaN
LtHalf(x) ==
  /\ x.kind # "nan"
  /\ IF x.kind = "inf" THEN x.sign = -1 ELSE 2 * x.sign * x.mag < Den

\* x + 1 : NaN and the infinities stay what they are
AddOne(x) ==
  IF x.kind = "fin"
  THEN LET v == x.sign * x.mag + Den
       IN  IF v < 0 THEN Fin(-1, -v) ELSE Fin(1, v)
  ELSE x

\* for (int i = 0; i < 6; ++i) { result += 1 / (x * x); x += 1; }
\* terms holds, in order, every x whose 1 / (x * x) was added to result
RECURSIVE ShiftLoop(_, _, _)
ShiftLoop(i, x, terms) ==
  IF i < 6
  THEN ShiftLoop(i + 1, AddOne(x), Append(terms, x))
  ELSE [x |-> x, terms |-> terms]

\* The evaluation of calc_trigamma(x), kept symbolic:
\*   sign * ( (reflected ? -PI_SQUARED / sin(PI * x0)^2 : 0)
\*            + sum of 1 / (t * t) over terms
\*            + (1 + 1 / (2 * x) + ixx * (c6 - ixx * (c3 - ixx * c42))) / x )
\* with x0 the argument, x the value left by the loop and ixx = 1 / (x * x).
\* c6, c3 and c42 are the values of the subexpressions (1 / 6), (1 / 3) and
\* (1 / 42): both operands are int literals, so each is an int division.
calc_trigamma(x0) ==
  LET reflected == LtHalf(x0)
      x1 == IF reflected THEN OneMinus(x0) ELSE x0
      loop == ShiftLoop(0, x1, <<>>)
  IN  [sign |-> IF reflected THEN -1 ELSE 1,
       reflected |-> reflected,
       terms |-> loop.terms,
       x |-> loop.x,
       c6 |-> IntDiv(1, 6),
       c3 |-> IntDiv(1, 3),
       c42 |-> IntDiv(1, 42)]

\* no lane has evaluated calc_trigamma
NoTrigamma ==
  [sign |-> 0, reflected |-> FALSE, terms |-> <<>>, x |-> NaNv,
   c6 |-> 0, c3 |-> 0, c42 |-> 0]

\* output[id] = calc_trigamma(input[id])
trigamma(x) == Val("calc_trigamma", 0, x, NoArg)

\* x + 1 for a finite x >= 0
PlusOne(x) == [x EXCEPT !.mag = @ + Den]

polygamma_sign_flipped(order, x) ==
  LET n == FloatOfInt(order)
      sgn == IF order % 2 # 0 THEN -1 ELSE 1
  IN  Val("gamma_zeta", sgn, PlusOne(n), x)

\* form "gamma_zeta": sgn * Gamma(a) * calc_zeta(a, b)
polygamma(order, x) ==
  LET n == FloatOfInt(order)
      sgn == IF order % 2 # 0 THEN 1 ELSE -1
  IN  Val("gamma_zeta", sgn, PlusOne(n), x)

digamma_no_zero_case(x) ==
  IF LtZero(x)
  THEN IF FEq(x, Trunc(x))
       THEN Val("nan", 0, NoArg, NoArg)
       ELSE Val("psi_reflect", 0, OneMinus(x), Fract(x))
  ELSE Val("psi_pos", 0, x, NoArg)

\* form "psi_reflect": calc_digamma_positive_domain(a) - PI / tan(PI * b)
\* form "psi_pos":     calc_digamma_positive_domain(a)
\* form "inf":         the infinity a
digamma(x) ==
  IF LtZero(x)
  THEN IF FEq(x, Trunc(x))
       THEN Val("nan", 0, NoArg, NoArg)
       ELSE Val("psi_reflect", 0, OneMinus(x), Fract(x))
  ELSE IF FEq(x, Fin(1, 0))
       THEN Val("inf", 0, CopysignInf(Neg(x)), NoArg)
       ELSE Val("psi_pos", 0, x, NoArg)

FuncNames == {"lgamma", "digamma", "trigamma", "polygamma"}

\* the kernel function named fname of the compiled library, applied by one lane
Kernel(fname, order, x) ==
  CASE fname = "lgamma" -> lgamma(x)
    [] fname = "digamma" -> digamma(x)
    [] fname = "trigamma" -> trigamma(x)
    [] OTHER -> polygamma(order, x)


\* ---------------------------------------------------------------- tensors
\* A 64-bit element count is hi * 2^32 + lo; the model keeps lo <= MaxLen.
Int64(hi, lo) == [hi |-> hi, lo |-> lo]

\* uint32_t length = output.numel();  the value modulo 2^32
ToUint32(n) == n.lo

\* A one-dimensional strided view: logical element i (from 0) is
\* storage[offset + i * stride] (from 0).  Of a count with hi > 0 the model
\* keeps the first elements of the storage only.
Tensor(dtype, numel, stride, offset, storage) ==
  [dtype |-> dtype, numel |-> numel, stride |-> stride, offset |-> offset,
   storage |-> storage]

is_contiguous(t) == (t.numel.hi = 0 /\ t.numel.lo <= 1) \/ t.stride = 1

\* the logical elements of a tensor whose count fits the model's storage
Logical(t) == [i \in 1..t.numel.lo |-> t.storage[t.offset + (i - 1) * t.stride + 1]]

\* t.contiguous(): t itself when contiguous, else a fresh contiguous copy
contiguous(t) ==
  IF is_contiguous(t) THEN t
  ELSE Tensor(t.dtype, t.numel, 1, 0, Logical(t))

\* dst.copy_(src): logical element i of src is stored as logical element i of dst
copy_(dst, src) ==
  [dst EXCEPT !.storage =
     [j \in 1..Len(dst.storage) |->
        IF \E i \in 1..dst.numel.lo : j = dst.offset + (i - 1) * dst.stride + 1
        THEN LET i == CHOOSE k \in 1..dst.numel.lo :
                        j = dst.offset + (k - 1) * dst.stride + 1
             IN  Logical(src)[i]
        ELSE dst.storage[j]]]

scalarToMetalTypeString(dtype) ==
  CASE dtype = "Float" -> "float"
    [] dtype = "Half" -> "half"
    [] dtype = "Int" -> "int"
    [] OTHER -> "double"

\* ----------------------------------------------------------------- caches
\* A library or pipeline state object; id 0 is nil.
Handle(id, t1, t2, fn) == [id |-> id, t1 |-> t1, t2 |-> t2, fn |-> fn]

Nil == Handle(0, "", "", "")

\* std::unordered_map: a function whose domain is the set of keys present
MapInsert(m, k, v) == [x \in DOMAIN m \cup {k} |-> IF x = k THEN v ELSE m[x]]

NoMap == [x \in {} |-> Nil]

\* what the device does: newLibraryWithSource / newComputePipelineState give
\* an object and no error ("ok"), nil ("nil") or an object and an error
\* ("err"); newFunctionWithName gives a function or nil.  A call stops at the
\* first step that fails, so at most one step of an Envs record fails.
Envs ==
  {e \in [compile : {"ok", "nil", "err"}, func : BOOLEAN,
          pipeline : {"ok", "nil", "err"}] :
     Cardinality({f \in {"c", "f", "p"} :
                    \/ f = "c" /\ e.compile # "ok"
                    \/ f = "f" /\ ~e.func
                    \/ f = "p" /\ e.pipeline # "ok"}) <= 1}

\* the static maps and the next object the device creates
State(lib, cpl, nh) == [lib |-> lib, cpl |-> cpl, nh |-> nh]

compileGammaOpsLibrary_insert_first(st, t1, t2, env) ==
  LET key == t1 \o t2
  IN  IF key \in DOMAIN st.lib
      THEN [ok |-> TRUE, rc |-> st.lib[key], st |-> st, compiled |-> 0]
      ELSE LET rc == IF env.compile = "nil" THEN Nil
                     ELSE Handle(st.nh, t1, t2, "")
               st1 == [st EXCEPT !.nh = IF rc # Nil THEN @ + 1 ELSE @,
                                 !.lib = MapInsert(@, key, rc)]
           IN  IF rc # Nil /\ env.compile = "ok"
               THEN [ok |-> TRUE, rc |-> rc, st |-> st1, compiled |-> 1]
               ELSE [ok |-> FALSE, rc |-> Nil, st |-> st1, compiled |-> 1]

compileGammaOpsLibrary_no_cache(st, t1, t2, env) ==
  LET key == t1 \o t2
      rc == IF env.compile = "nil" THEN Nil ELSE Handle(st.nh, t1, t2, "")
      st1 == [st EXCEPT !.nh = IF rc # Nil THEN @ + 1 ELSE @]
  IN  IF rc # Nil /\ env.compile = "ok"
      THEN [ok |-> TRUE, rc |-> rc,
            st |-> [st1 EXCEPT !.lib = MapInsert(@, key, rc)], compiled |-> 1]
      ELSE [ok |-> FALSE, rc |-> Nil, st |-> st1, compiled |-> 1]

\* ok: no TORCH_CHECK failed; compiled: calls of newLibraryWithSource
compileGammaOpsLibrary(st, t1, t2, env) ==
  LET key == t1 \o t2
  IN  IF key \in DOMAIN st.lib
      THEN [ok |-> TRUE, rc |-> st.lib[key], st |-> st, compiled |-> 0]
      ELSE LET rc == IF env.compile = "nil" THEN Nil
                     ELSE Handle(st.nh, t1, t2, "")
               st1 == [st EXCEPT !.nh = IF rc # Nil THEN @ + 1 ELSE @]
           IN  IF rc # Nil /\ env.compile = "ok"
               THEN [ok |-> TRUE, rc |-> rc,
                     st |-> [st1 EXCEPT !.lib = MapInsert(@, key, rc)],
                     compiled |-> 1]
               ELSE [ok |-> FALSE, rc |-> Nil, st |-> st1, compiled |-> 1]

\* the result of a getCPLState call: err is "" or the TORCH_CHECK that failed;
\* compiled, funcs, built count the calls of newLibraryWithSource,
\* newFunctionWithName and newComputePipelineStateWithFunction
CplResult(err, rc, st, compiled, funcs, built) ==
  [ok |-> err = "", err |-> err, rc |-> rc, st |-> st, compiled |-> compiled,
   funcs |-> funcs, built |-> built]

getCPLState(st, t1, t2, fname, env) ==
  LET key == t1 \o t2 \o fname
  IN  IF key \in DOMAIN st.cpl
      THEN CplResult("", st.cpl[key], st, 0, 0, 0)
      ELSE LET L == compileGammaOpsLibrary(st, t1, t2, env)
           IN  IF ~L.ok
               THEN CplResult("Failed to compile library", Nil, L.st,
                              L.compiled, 0, 0)
               ELSE IF ~env.func
               THEN CplResult("Can't get function", Nil, L.st, L.compiled, 1, 0)
               ELSE LET rc == IF env.pipeline = "nil" THEN Nil
                              ELSE Handle(L.st.nh, L.rc.t1, L.rc.t2, fname)
                        st1 == [L.st EXCEPT !.nh = IF rc # Nil THEN @ + 1 ELSE @]
                    IN  IF rc # Nil /\ env.pipeline = "ok"
                        THEN CplResult("", rc,
                                       [st1 EXCEPT !.cpl = MapInsert(@, key, rc)],
                                       L.compiled, 1, 1)
                        ELSE CplResult("Failed to construct pipeline state",
                                       Nil, st1, L.compiled, 1, 1)

\* -------------------------------------------------------------- operators
\* mps::dispatch1DJob(encoder, cplState, length): the lane ids of the grid
dispatch1DJob(length) == 0..(length - 1)

NoOrder == -1

\* What the dispatch_sync block encodes: the pipeline state set, the byte
\* offsets (in elements) of the buffers bound at index 0 and 1, the order
\* bound at index 2 (NoOrder when none is bound) and the grid length.
Submission(cplState, selfT, outT, order, length) ==
  [pipeline |-> cplState, buf0 |-> selfT.offset, buf1 |-> outT.offset,
   bytes2 |-> order, length |-> length]

\* The kernel of the pipeline run over the grid: lane id reads input[id] and
\* writes output[id], both counted from the offset the buffer was bound at.
RunKernel(sub, selfT, outT) ==
  [outT EXCEPT !.storage =
     [j \in 1..Len(outT.storage) |->
        IF (j - 1 - sub.buf1) \in dispatch1DJob(sub.length)
        THEN Kernel(sub.pipeline.fn, sub.bytes2,
                    selfT.storage[sub.buf0 + (j - 1 - sub.buf1) + 1])
        ELSE outT.storage[j]]]

\* What one operator call did.  status: "ok" or "error"; err: the message of
\* the TORCH_CHECK that failed; st: the caches after it; out: the caller's
\* output tensor after it; subs: the work submitted; lookups: getCPLState
\* calls; compiled, funcs, built: device calls; copies: contiguous copies
\* of the output that were made.
OpResult(err, st, out, subs, lookups, g, copies) ==
  [status |-> IF err = "" THEN "ok" ELSE "error", err |-> err, st |-> st,
   out |-> out, subs |-> subs, lookups |-> lookups, compiled |-> g.compiled,
   funcs |-> g.funcs, built |-> g.built, rc |-> g.rc, copies |-> copies]

NoLookup == CplResult("", Nil, NoMap, 0, 0, 0)

\* The body the three operators share from the zero-length return on, with
\* the function name and the order to bind at index 2 (NoOrder: none).
Launch(st, self, output_, length, fname, bound, env) ==
  LET nc == ~is_contiguous(self)
      output == IF nc THEN contiguous(output_) ELSE output_
      needs_output_copy == nc
      copies == IF nc /\ ~is_contiguous(output_) THEN 1 ELSE 0
      input_type == scalarToMetalTypeString(self.dtype)
      output_type == scalarToMetalTypeString(output.dtype)
      g == getCPLState(st, input_type, output_type, fname, env)
  IN  IF ~g.ok
      THEN OpResult(g.err, g.st, output_, <<>>, 1, g, copies)
      ELSE LET sub == Submission(g.rc, self, output, bound, length)
               written == RunKernel(sub, self, output)
               \* output aliases output_ unless a fresh copy was made
               dst == IF copies = 1 THEN output_ ELSE written
               final == IF needs_output_copy THEN copy_(dst, written) ELSE written
           IN  OpResult("", g.st, final, <<sub>>, 1, g, copies)

lgamma_out_mps_lookup_first(st, self, output_, env) ==
  LET g == getCPLState(st, scalarToMetalTypeString(self.dtype),
                       scalarToMetalTypeString(output_.dtype), "lgamma", env)
      length == ToUint32(output_.numel)
  IN  IF ~g.ok
      THEN OpResult(g.err, g.st, output_, <<>>, 1, g, 0)
      ELSE IF self.dtype = "Double"
      THEN OpResult("MPS does not support lgamma_out op with scalar type: Double",
                    g.st, output_, <<>>, 1, g, 0)
      ELSE IF length = 0
      THEN OpResult("", g.st, output_, <<>>, 1, g, 0)
      ELSE Launch(g.st, self, output_, length, "lgamma", NoOrder, env)

lgamma_out_mps(st, self, output_, env) ==
  IF self.dtype = "Double"
  THEN OpResult("MPS does not support lgamma_out op with scalar type: Double",
                st, output_, <<>>, 0, NoLookup, 0)
  ELSE LET length == ToUint32(output_.numel)
       IN  IF length = 0
           THEN OpResult("", st, output_, <<>>, 0, NoLookup, 0)
           ELSE Launch(st, self, output_, length, "lgamma", NoOrder, env)

digamma_out_mps_zero_check_late(st, self, output_, env) ==
  IF self.dtype = "Double"
  THEN OpResult("MPS does not support digamma_out op with scalar type: Double",
                st, output_, <<>>, 0, NoLookup, 0)
  ELSE Launch(st, self, output_, ToUint32(output_.numel), "digamma", NoOrder, env)

digamma_out_mps(st, self, output_, env) ==
  IF self.dtype = "Double"
  THEN OpResult("MPS does not support digamma_out op with scalar type: Double",
                st, output_, <<>>, 0, NoLookup, 0)
  ELSE LET length == ToUint32(output_.numel)
       IN  IF length = 0
           THEN OpResult("", st, output_, <<>>, 0, NoLookup, 0)
           ELSE Launch(st, self, output_, length, "digamma", NoOrder, env)

polygamma_func_name_off_by_one(order) ==
  IF order = 0 THEN "digamma"
  ELSE IF order = 1 \/ order = 2 THEN "trigamma"
  ELSE "polygamma"

\* lines 560-568: the function name polygamma_out_mps selects
polygamma_func_name(order) ==
  IF order = 0 THEN "digamma"
  ELSE IF order = 1 THEN "trigamma"
  ELSE "polygamma"

polygamma_out_mps(order, st, self, output_, env) ==
  IF self.dtype = "Double"
  THEN OpResult("MPS does not support polygamma_out op with scalar type: Double",
                st, output_, <<>>, 0, NoLookup, 0)
  ELSE IF ~(order >= 0)
  THEN OpResult("Polygamma is implemented only for nonnegative real numbers",
                st, output_, <<>>, 0, NoLookup, 0)
  ELSE LET length == ToUint32(output_.numel)
           func_name == polygamma_func_name(order)
           bound == IF func_name = "polygamma" THEN order ELSE NoOrder
       IN  IF length = 0
           THEN OpResult("", st, output_, <<>>, 0, NoLookup, 0)
           ELSE Launch(st, self, output_, length, func_name, bound, env)

\* ------------------------------------------------------------------ state
VARIABLES
  libMap,        \* compileGammaOpsLibrary's static libMap
  cplMap,        \* getCPLState's static cplMap
  nextHandle,    \* id of the next object the device creates
  compileCount,  \* per library key: calls of newLibraryWithSource so far
  buildCount,    \* per pipeline key: calls of newComputePipelineState so far
  firstCpl,      \* per pipeline key: the first pipeline state cached for it
  failures,      \* device calls that failed so far
  calls,         \* operator calls made so far (Spec)
  last,          \* the last operator call: its arguments and what it did (Spec)
  pc,            \* per thread: its place in getCPLState (SpecConc)
  targ,          \* per thread: the arguments of its call (SpecConc)
  tloc,          \* per thread: the locals library and rc (SpecConc)
  returned,      \* per thread: the <<key, handle>> pairs its calls returned
  tcalls,        \* per thread: calls started (SpecConc)
  kin,           \* the lane's input[id] (SpecKernel)
  korder,        \* the order bound at index 2 (SpecKernel)
  kfn,           \* the kernel the lane ran, "" before it runs (SpecKernel)
  kout,          \* the lane's output[id] (SpecKernel)
  ktri,          \* the lane's evaluation of calc_trigamma (SpecKernel)
  hasHooks,      \* at::impl::HasVariableHooks() (SpecDispatch)
  dlast          \* the last boxed operator call dispatched (SpecDispatch)

cacheVars == <<libMap, cplMap, nextHandle, compileCount, buildCount, firstCpl,
               failures>>

hostVars == <<calls, last>>

threadVars == <<pc, targ, tloc, returned, tcalls>>

kernelVars == <<kin, korder, kfn, kout, ktri>>

dispatchVars == <<hasHooks, dlast>>

vars == <<cacheVars, hostVars, threadVars, kernelVars, dispatchVars>>

\* ----------------------------------------------------------------- inputs
\* the element at place j of an input storage: the places hold pairwise
\* distinct values of both signs (+3/4, -5/4, +7/4, ...)
ElemAt(j) == Fin(IF j % 2 = 1 THEN 1 ELSE -1, 2 * j + 1)

MaxStride == 2

StorLen == (MaxLen - 1) * MaxStride + 1

SelfDTypes == {"Float", "Int", "Double"}

OutDTypes == {"Float"}

Storages == {[j \in 1..StorLen |-> ElemAt(j)]}

\* the views of a storage whose elements all lie inside it, and the
\* contiguous tensors of 2^32 elements and more
SelfTensors ==
  {Tensor(d, Int64(0, n), s, o, st) :
     d \in SelfDTypes, n \in 0..MaxLen, s \in 1..MaxStride, o \in 0..1,
     st \in Storages}
  \cup {Tensor(d, Int64(h, n), 1, 0, st) :
          d \in SelfDTypes, h \in 1..MaxHi, n \in 0..MaxLen, st \in Storages}

\* every element lies inside the storage; a view of at most one element is
\* taken with stride 1 (its stride addresses nothing)
InBounds(t) ==
  \/ t.numel.hi > 0
  \/ t.numel.lo = 0 /\ t.stride = 1 /\ t.offset = 0
  \/ t.numel.lo = 1 /\ t.stride = 1
  \/ t.numel.lo > 1 /\ t.offset + (t.numel.lo - 1) * t.stride + 1 <= Len(t.storage)

\* the output of a structured operator has the element count of its input;
\* its layout is the caller's
OutTensors(self) ==
  {Tensor(d, self.numel, s, 0, [j \in 1..StorLen |-> InitVal]) :
     d \in OutDTypes,
     s \in (IF self.numel.hi > 0 \/ self.numel.lo <= 1 THEN {1} ELSE 1..MaxStride)}

Orders == -1..MaxOrder

NoCall ==
  [op |-> "none", order |-> NoOrder, self |-> Tensor("Float", Int64(0, 0), 1, 0, <<>>),
   out0 |-> Tensor("Float", Int64(0, 0), 1, 0, <<>>), libKey |-> "", cplKey |-> "",
   preLib |-> NoMap, preCpl |-> NoMap, preNh |-> 1,
   res |-> OpResult("", State(NoMap, NoMap, 1), Tensor("Float", Int64(0, 0), 1, 0, <<>>),
                    <<>>, 0, NoLookup, 0)]

Threads == 1..NThreads

Bump(m, k, n) ==
  IF n = 0 THEN m ELSE MapInsert(m, k, (IF k \in DOMAIN m THEN m[k] ELSE 0) + n)

\* no boxed operator call has been dispatched
NoDispatch == [op |-> [kernels |-> {}], keys |-> {}, stack |-> <<>>, hooks |-> FALSE,
               trace |-> <<>>, out |-> <<>>]

\* the process starts with both static maps empty and no call made
InitProcess ==
  /\ libMap = NoMap
  /\ cplMap = NoMap
  /\ nextHandle = 1
  /\ compileCount = NoMap
  /\ buildCount = NoMap
  /\ firstCpl = NoMap
  /\ failures = 0
  /\ calls = 0
  /\ last = NoCall
  /\ pc = [t \in Threads |-> "idle"]
  /\ targ = [t \in Threads |-> <<"", "", "">>]
  /\ tloc = [t \in Threads |-> [library |-> Nil, rc |-> Nil]]
  /\ returned = [t \in Threads |-> {}]
  /\ tcalls = [t \in Threads |-> 0]
  /\ hasHooks = FALSE
  /\ dlast = NoDispatch

Init ==
  /\ InitProcess
  /\ kin = NaNv
  /\ korder = 0
  /\ kfn = ""
  /\ kout = InitVal
  /\ ktri = NoTrigamma

\* ---------------------------------------------------------- Spec: one host
\* The effect of one whole operator call r on the state.
Record(op, order, fname, self, output_, r) ==
  LET libKey == scalarToMetalTypeString(self.dtype)
                  \o scalarToMetalTypeString(output_.dtype)
      cplKey == libKey \o fname
  IN  /\ libMap' = r.st.lib
      /\ cplMap' = r.st.cpl
      /\ nextHandle' = r.st.nh
      /\ compileCount' = Bump(compileCount, libKey, r.compiled)
      /\ buildCount' = Bump(buildCount, cplKey, r.built)
      /\ firstCpl' = [k \in DOMAIN firstCpl \cup DOMAIN r.st.cpl |->
                        IF k \in DOMAIN firstCpl THEN firstCpl[k] ELSE r.st.cpl[k]]
      /\ failures' = failures + (IF r.lookups > 0 /\ r.status = "error" THEN 1 ELSE 0)
      /\ calls' = calls + 1
      /\ last' = [op |-> op, order |-> order, self |-> self, out0 |-> output_,
                  libKey |-> libKey, cplKey |-> cplKey, preLib |-> libMap,
                  preCpl |-> cplMap, preNh |-> nextHandle, res |-> r]
      /\ UNCHANGED <<threadVars, kernelVars, dispatchVars>>

Now == State(libMap, cplMap, nextHandle)

LgammaCall ==
  /\ calls < MaxCalls
  /\ \E self \in SelfTensors, env \in Envs :
       /\ InBounds(self)
       /\ \E output_ \in OutTensors(self) :
            Record("lgamma", NoOrder, "lgamma", self, output_,
                   lgamma_out_mps(Now, self, output_, env))

DigammaCall ==
  /\ calls < MaxCalls
  /\ \E self \in SelfTensors, env \in Envs :
       /\ InBounds(self)
       /\ \E output_ \in OutTensors(self) :
            Record("digamma", NoOrder, "digamma", self, output_,
                   digamma_out_mps(Now, self, output_, env))

PolygammaCall ==
  /\ calls < MaxCalls
  /\ \E order \in Orders, self \in SelfTensors, env \in Envs :
       /\ InBounds(self)
       /\ \E output_ \in OutTensors(self) :
            Record("polygamma", order, polygamma_func_name(order), self, output_,
                   polygamma_out_mps(order, Now, self, output_, env))

Next == LgammaCall \/ DigammaCall \/ PolygammaCall

Spec == Init /\ [][Next]_vars

\* ----------------------------------------------------- claims under Spec
Called == last.op # "none"

\* the state the last call started in
Pre == State(last.preLib, last.preCpl, last.preNh)

\* a device on which every step succeeds
OkEnv == [compile |-> "ok", func |-> TRUE, pipeline |-> "ok"]

PrecondsHold ==
  /\ last.self.dtype # "Double"
  /\ last.op = "polygamma" => last.order >= 0

\* the last call looked its pipeline up and found it cached
CacheHit == Called /\ last.res.lookups = 1 /\ last.cplKey \in DOMAIN last.preCpl

\* C1: as long as no device call has failed, newLibraryWithSource has run at
\* most once per library key and newComputePipelineState at most once per
\* pipeline key, every cached pipeline is the first one cached for its key,
\* and a call that finds its key cached returns that first handle without
\* compiling, resolving or constructing anything.
C1_CompiledAtMostOnce ==
  failures = 0 =>
    /\ \A k \in DOMAIN compileCount : compileCount[k] <= 1
    /\ \A k \in DOMAIN buildCount : buildCount[k] <= 1
    /\ \A k \in DOMAIN cplMap : cplMap[k] = firstCpl[k]
    /\ CacheHit =>
         /\ last.res.status = "ok"
         /\ last.res.rc = firstCpl[last.cplKey]
         /\ last.res.compiled = 0
         /\ last.res.funcs = 0
         /\ last.res.built = 0

\* a second call found the pipeline the first call had built
C1_Witness ==
  /\ failures = 0
  /\ calls = 2
  /\ CacheHit
  /\ buildCount[last.cplKey] = 1
  /\ compileCount[last.libKey] = 1

\* C4: a call with a Double input, or a polygamma call with a negative
\* order, raises an error and does nothing else: no pipeline lookup, no
\* device call, no contiguous copy, no work submitted, the caches and the
\* caller's output tensor as they were.
C4_PreconditionAbortsFirst ==
  (Called /\ ~PrecondsHold) =>
    /\ last.res.status = "error"
    /\ last.res.lookups = 0
    /\ last.res.compiled = 0
    /\ last.res.funcs = 0
    /\ last.res.built = 0
    /\ last.res.copies = 0
    /\ last.res.subs = <<>>
    /\ last.res.out = last.out0
    /\ libMap = last.preLib
    /\ cplMap = last.preCpl
    /\ nextHandle = last.preNh

\* a Double, non-contiguous input was rejected
C4_Witness ==
  /\ Called
  /\ last.self.dtype = "Double"
  /\ ~is_contiguous(last.self)
  /\ last.res.status = "error"

\* C6: a call whose preconditions hold and whose output has 0 elements
\* returns successfully having done nothing: no lookup, no device call, no
\* cache entry added, no work submitted, no contiguous copy, the output
\* tensor unchanged.
C6_ZeroLengthNoOp ==
  (Called /\ PrecondsHold /\ last.out0.numel = Int64(0, 0)) =>
    /\ last.res.status = "ok"
    /\ last.res.lookups = 0
    /\ last.res.compiled = 0
    /\ last.res.funcs = 0
    /\ last.res.built = 0
    /\ last.res.copies = 0
    /\ last.res.subs = <<>>
    /\ last.res.out = last.out0
    /\ libMap = last.preLib
    /\ cplMap = last.preCpl

\* digamma was called on an empty tensor while its pipeline was not cached
C6_Witness ==
  /\ Called
  /\ last.op = "digamma"
  /\ PrecondsHold
  /\ last.out0.numel = Int64(0, 0)
  /\ last.cplKey \notin DOMAIN cplMap

\* the operator op applied in state st
Invoke(op, order, st, self, output_, env) ==
  CASE op = "lgamma" -> lgamma_out_mps(st, self, output_, env)
    [] op = "digamma" -> digamma_out_mps(st, self, output_, env)
    [] OTHER -> polygamma_out_mps(order, st, self, output_, env)

\* the last call submitted work
Submitted == Called /\ last.res.status = "ok" /\ Len(last.res.subs) = 1

\* C3: after a successful call on a non-contiguous input, the logical
\* elements of the caller's output tensor are those the same operator leaves
\* there when it is given the same logical input as a contiguous tensor.
C3_StridedInputMatchesContiguous ==
  (Submitted /\ ~is_contiguous(last.self)) =>
    Logical(last.res.out) =
      Logical(Invoke(last.op, last.order, Pre, contiguous(last.self),
                     last.out0, OkEnv).out)

\* C5: a call that passes the preconditions, has a non-zero output element
\* count and gets its pipeline submits a grid of exactly that many lanes.
C5_LanesEqualElementCount ==
  (Called /\ PrecondsHold /\ last.out0.numel # Int64(0, 0)
     /\ last.res.status = "ok") =>
    /\ Len(last.res.subs) = 1
    /\ Int64(0, Cardinality(dispatch1DJob(last.res.subs[1].length)))
         = last.out0.numel

\* C7: a polygamma call that submits work uses the pipeline of "digamma" for
\* order 0, of "trigamma" for order 1 and of "polygamma" for every order
\* >= 2, and binds the order at index 2 exactly when the function is
\* "polygamma"; for order 0 the library and pipeline caches, the submission
\* and the output tensor are those of digamma_out_mps on the same arguments
\* in the same state, and for order 1 every element the grid wrote is the
\* trigamma kernel's value of the input element at the same place.
C7_PolygammaSelectsByOrder ==
  (Submitted /\ last.op = "polygamma") =>
    LET sub == last.res.subs[1]
        fn == sub.pipeline.fn
        d == digamma_out_mps(Pre, last.self, last.out0, OkEnv)
    IN  /\ last.order = 0 => fn = "digamma"
        /\ last.order = 1 => fn = "trigamma"
        /\ last.order >= 2 => fn = "polygamma"
        /\ sub.pipeline = cplMap[last.cplKey]
        /\ (sub.bytes2 # NoOrder) <=> (fn = "polygamma")
        /\ fn = "polygamma" => sub.bytes2 = last.order
        /\ last.order = 0 =>
             /\ d.subs = last.res.subs
             /\ d.out = last.res.out
             /\ d.st = Now
        /\ (last.order = 1 /\ is_contiguous(last.self) /\ is_contiguous(last.out0)) =>
             \A i \in 1..sub.length :
               Logical(last.res.out)[i] = trigamma(Logical(last.self)[i])

\* polygamma of order 0 ran while no "digamma" pipeline was cached
C7_Witness ==
  /\ Submitted
  /\ last.op = "polygamma"
  /\ last.order = 0
  /\ last.cplKey \notin DOMAIN last.preCpl
  /\ last.res.out # last.out0

\* the last call failed inside getCPLState
LookupFailed == Called /\ last.res.lookups = 1 /\ last.res.status = "error"

\* C10: a call in which compilation, function resolution or pipeline
\* construction fails raises an error, has run the failing step once and no
\* later step, submits no work, leaves the output tensor and the pipeline
\* cache as they were, so with no entry for the requested key; and every
\* entry of either cache is a non-nil object built for its key.
C10_FailureAddsNoEntry ==
  /\ LookupFailed =>
       /\ last.res.subs = <<>>
       /\ last.res.out = last.out0
       /\ cplMap = last.preCpl
       /\ last.cplKey \notin DOMAIN cplMap
       /\ last.res.rc = Nil
       /\ last.res.err = "Failed to compile library" =>
            /\ last.res.compiled = 1 /\ last.res.funcs = 0 /\ last.res.built = 0
            /\ libMap = last.preLib
       /\ last.res.err = "Can't get function" =>
            last.res.compiled <= 1 /\ last.res.funcs = 1 /\ last.res.built = 0
       /\ last.res.err = "Failed to construct pipeline state" =>
            last.res.compiled <= 1 /\ last.res.funcs = 1 /\ last.res.built = 1
  /\ \A k \in DOMAIN libMap :
       libMap[k] # Nil /\ libMap[k].t1 \o libMap[k].t2 = k
  /\ \A k \in DOMAIN cplMap :
       cplMap[k] # Nil /\ cplMap[k].t1 \o cplMap[k].t2 \o cplMap[k].fn = k

\* pipeline construction failed right after the library was compiled
C10_Witness ==
  /\ LookupFailed
  /\ last.res.err = "Failed to construct pipeline state"
  /\ last.res.compiled = 1
  /\ last.libKey \in DOMAIN libMap

\* ------------------------------------------------ SpecKernel: one lane
\* One lane of a grid: input[id] is any float, the order any order the host
\* binds; the lane runs one of the four kernels of the library.  The host
\* launches the polygamma kernel for orders >= 2 only.
InitKernel ==
  /\ InitProcess
  /\ kin \in FloatVals
  /\ korder \in 0..MaxKernelOrder
  /\ kfn = ""
  /\ kout = InitVal
  /\ ktri = NoTrigamma

RunLane(fname) ==
  /\ kfn = ""
  /\ kfn' = fname
  /\ kout' = Kernel(fname, korder, kin)
  /\ ktri' = (IF fname = "trigamma" THEN calc_trigamma(kin) ELSE ktri)
  /\ UNCHANGED <<kin, korder, cacheVars, hostVars, threadVars, dispatchVars>>

KLgamma == RunLane("lgamma")

KDigamma == RunLane("digamma")

KTrigamma == RunLane("trigamma")

KPolygamma == korder >= 2 /\ RunLane("polygamma")

NextKernel == KLgamma \/ KDigamma \/ KTrigamma \/ KPolygamma

SpecKernel == InitKernel /\ [][NextKernel]_vars

\* C8 as stated: the sign factor of the polygamma kernel is +1 for an even
\* order and -1 for an odd order.
C8_SignPlusForEvenOrder ==
  kfn = "polygamma" =>
    /\ kout.form = "gamma_zeta"
    /\ kout.a = FloatOfInt(korder + 1)
    /\ kout.b = kin
    /\ kout.sgn = (IF korder % 2 = 0 THEN 1 ELSE -1)

\* C8 amended: for every order >= 2 the polygamma kernel stores
\* sgn * Gamma(order + 1) * calc_zeta(order + 1, x) with sgn = +1 for an odd
\* order and -1 for an even order.
C8_SignPlusForOddOrder ==
  kfn = "polygamma" =>
    /\ kout.form = "gamma_zeta"
    /\ kout.a = FloatOfInt(korder + 1)
    /\ kout.b = kin
    /\ kout.sgn = (IF korder % 2 = 1 THEN 1 ELSE -1)

\* the kernel ran for the even order 2 on x = 3/4
C8_Witness ==
  /\ kfn = "polygamma"
  /\ korder = 2
  /\ kin = Fin(1, 3)
  /\ kout.sgn = -1

\* x == trunc(x), for an x that is not NaN
IsInteger(x) == x.kind = "inf" \/ x.mag % Den = 0

\* the value of a finite float, in units of 1/Den
Units(x) == x.sign * x.mag

\* the four cases of the digamma kernel and what it stores in each
DigammaCases(x, out) ==
  <<LtZero(x) /\ IsInteger(x) /\ out.form = "nan",
    LtZero(x) /\ ~IsInteger(x) /\ out.form = "psi_reflect"
      /\ out.a.kind = "fin" /\ Units(out.a) = Den - Units(x)
      /\ out.b.kind = "fin" /\ Units(out.b) \in 1..(Den - 1)
      /\ (Units(x) - Units(out.b)) % Den = 0,
    IsZero(x) /\ out.form = "inf" /\ out.a = Inf(-x.sign),
    GtZero(x) /\ out.form = "psi_pos" /\ out.a = x>>

CallsPositiveDomain(out) == out.form \in {"psi_reflect", "psi_pos"}

\* C9 as stated: every input falls in exactly one of the four cases, and
\* calc_digamma_positive_domain is only ever given a strictly positive
\* argument.
C9_EveryInputClassified ==
  kfn = "digamma" =>
    /\ Cardinality({i \in 1..4 : DigammaCases(kin, kout)[i]}) = 1
    /\ CallsPositiveDomain(kout) => GtZero(kout.a)

\* C9 amended: every input that is not NaN falls in exactly one of the four
\* cases (an infinity counts as an integer), and for those inputs
\* calc_digamma_positive_domain is only given a strictly positive argument;
\* for a NaN input the kernel takes its last branch and stores
\* calc_digamma_positive_domain(NaN).
C9_NonNaNInputClassified ==
  kfn = "digamma" =>
    IF kin.kind # "nan"
    THEN /\ Cardinality({i \in 1..4 : DigammaCases(kin, kout)[i]}) = 1
         /\ CallsPositiveDomain(kout) => GtZero(kout.a)
    ELSE kout.form = "psi_pos" /\ kout.a.kind = "nan"

\* the reflection branch ran for x = -5/4: argument 9/4, fractional part 3/4
C9_Witness ==
  /\ kfn = "digamma"
  /\ kin = Fin(-1, 5)
  /\ kout = Val("psi_reflect", 0, Fin(1, 9), Fin(1, 3))

\* the lane's calc_trigamma made exactly 6 shift steps: 6 terms 1 / (x * x)
\* were added, each for an x one above the x of the term before, and the
\* tail correction is taken at the last of them plus one
SixShiftSteps ==
  /\ Len(ktri.terms) = 6
  /\ \A i \in 1..5 : ktri.terms[i + 1] = AddOne(ktri.terms[i])
  /\ ktri.x = AddOne(ktri.terms[6])

\* C12: calc_trigamma performs exactly 6 shift steps, each adding 1/x^2 and
\* incrementing x by 1, and then adds the tail correction in which the
\* coefficients written (1 / 6), (1 / 3) and (1 / 42) evaluate to non-zero
\* values, so that the correction is a series in 1/x^2.
C12_TailCoefficientsNonZero ==
  kfn = "trigamma" =>
    /\ SixShiftSteps
    /\ ktri.c6 # 0
    /\ ktri.c3 # 0
    /\ ktri.c42 # 0

\* ------------------------------------------- SpecConc: several threads
\* getCPLState and the compileGammaOpsLibrary call inside it, one step per
\* access to a static map or to the device.  Neither function takes a lock,
\* so the steps of different threads interleave freely.  (Two threads inside
\* the same std::unordered_map at once is a data race; the interleavings of
\* whole find and insert calls are the mildest of its outcomes.)
ConcTypes == {"float"}

ConcFuncs == {"lgamma", "digamma"}

LibKeyOf(t) == targ[t][1] \o targ[t][2]

CplKeyOf(t) == targ[t][1] \o targ[t][2] \o targ[t][3]

Goto(t, label) == pc' = [pc EXCEPT ![t] = label]

\* a TORCH_CHECK fails: the call throws
Throw(t) ==
  /\ Goto(t, "idle")
  /\ failures' = failures + 1

\* a thread calls getCPLState(device, t1, t2, fname)
Enter(t) ==
  /\ pc[t] = "idle"
  /\ tcalls[t] < MaxThreadCalls
  /\ \E t1 \in ConcTypes, fname \in ConcFuncs :
       targ' = [targ EXCEPT ![t] = <<t1, "float", fname>>]
  /\ tcalls' = [tcalls EXCEPT ![t] = @ + 1]
  /\ tloc' = [tloc EXCEPT ![t] = [library |-> Nil, rc |-> Nil]]
  /\ Goto(t, "cplMap.find")
  /\ UNCHANGED <<cacheVars, returned, hostVars, kernelVars,
                 dispatchVars>>

\* auto it = cplMap.find(key); if (it != cplMap.end()) return it->second;
CplFind(t) ==
  /\ pc[t] = "cplMap.find"
  /\ IF CplKeyOf(t) \in DOMAIN cplMap
     THEN /\ returned' = [returned EXCEPT ![t] = @ \cup {<<CplKeyOf(t), cplMap[CplKeyOf(t)]>>}]
          /\ Goto(t, "idle")
     ELSE /\ Goto(t, "libMap.find")
          /\ UNCHANGED returned
  /\ UNCHANGED <<cacheVars, targ, tloc, tcalls, hostVars, kernelVars,
                 dispatchVars>>

\* auto it = libMap.find(key); if (it != libMap.end()) return it->second;
LibFind(t) ==
  /\ pc[t] = "libMap.find"
  /\ IF LibKeyOf(t) \in DOMAIN libMap
     THEN /\ tloc' = [tloc EXCEPT ![t].library = libMap[LibKeyOf(t)]]
          /\ Goto(t, "newFunction")
     ELSE /\ Goto(t, "newLibrary")
          /\ UNCHANGED tloc
  /\ UNCHANGED <<cacheVars, targ, returned, tcalls, hostVars, kernelVars,
                 dispatchVars>>

\* auto rc = [device newLibraryWithSource: ...]; TORCH_CHECK(rc != nil && error == nil)
NewLibrary(t) ==
  /\ pc[t] = "newLibrary"
  /\ compileCount' = Bump(compileCount, LibKeyOf(t), 1)
  /\ \E outcome \in {"ok", "nil", "err"} :
       LET rc == IF outcome = "nil" THEN Nil
                 ELSE Handle(nextHandle, targ[t][1], targ[t][2], "")
       IN  /\ nextHandle' = IF rc # Nil THEN nextHandle + 1 ELSE nextHandle
           /\ IF rc # Nil /\ outcome = "ok"
              THEN /\ tloc' = [tloc EXCEPT ![t].rc = rc]
                   /\ Goto(t, "libMap.insert")
                   /\ UNCHANGED failures
              ELSE /\ Throw(t)
                   /\ UNCHANGED tloc
  /\ UNCHANGED <<libMap, cplMap, buildCount, firstCpl, targ, returned, tcalls,
                 hostVars, kernelVars,
                 dispatchVars>>

\* libMap[key] = rc; return rc;
LibInsert(t) ==
  /\ pc[t] = "libMap.insert"
  /\ libMap' = MapInsert(libMap, LibKeyOf(t), tloc[t].rc)
  /\ tloc' = [tloc EXCEPT ![t] = [library |-> tloc[t].rc, rc |-> Nil]]
  /\ Goto(t, "newFunction")
  /\ UNCHANGED <<cplMap, nextHandle, compileCount, buildCount, firstCpl, failures,
                 targ, returned, tcalls, hostVars, kernelVars,
                 dispatchVars>>

\* func = [library newFunctionWithName: fname]; TORCH_CHECK(func != nil)
NewFunction(t) ==
  /\ pc[t] = "newFunction"
  /\ \E found \in BOOLEAN :
       IF found
       THEN Goto(t, "newPipeline") /\ UNCHANGED failures
       ELSE Throw(t)
  /\ UNCHANGED <<libMap, cplMap, nextHandle, compileCount, buildCount, firstCpl,
                 targ, tloc, returned, tcalls, hostVars, kernelVars,
                 dispatchVars>>

\* auto rc = [device newComputePipelineStateWithFunction: func error: &error];
\* TORCH_CHECK(rc != nil && error == nil)
NewPipeline(t) ==
  /\ pc[t] = "newPipeline"
  /\ buildCount' = Bump(buildCount, CplKeyOf(t), 1)
  /\ \E outcome \in {"ok", "nil", "err"} :
       LET rc == IF outcome = "nil" THEN Nil
                 ELSE Handle(nextHandle, tloc[t].library.t1, tloc[t].library.t2,
                             targ[t][3])
       IN  /\ nextHandle' = IF rc # Nil THEN nextHandle + 1 ELSE nextHandle
           /\ IF rc # Nil /\ outcome = "ok"
              THEN /\ tloc' = [tloc EXCEPT ![t].rc = rc]
                   /\ Goto(t, "cplMap.insert")
                   /\ UNCHANGED failures
              ELSE /\ Throw(t)
                   /\ UNCHANGED tloc
  /\ UNCHANGED <<libMap, cplMap, compileCount, firstCpl, targ, returned, tcalls,
                 hostVars, kernelVars,
                 dispatchVars>>

\* cplMap[key] = rc; return rc;
CplInsert(t) ==
  /\ pc[t] = "cplMap.insert"
  /\ cplMap' = MapInsert(cplMap, CplKeyOf(t), tloc[t].rc)
  /\ firstCpl' = IF CplKeyOf(t) \in DOMAIN firstCpl THEN firstCpl
                 ELSE MapInsert(firstCpl, CplKeyOf(t), tloc[t].rc)
  /\ returned' = [returned EXCEPT ![t] = @ \cup {<<CplKeyOf(t), tloc[t].rc>>}]
  /\ Goto(t, "idle")
  /\ UNCHANGED <<libMap, nextHandle, compileCount, buildCount, failures, targ,
                 tloc, tcalls, hostVars, kernelVars,
                 dispatchVars>>

NextConc ==
  \E t \in Threads :
    \/ Enter(t)
    \/ CplFind(t)
    \/ LibFind(t)
    \/ NewLibrary(t)
    \/ LibInsert(t)
    \/ NewFunction(t)
    \/ NewPipeline(t)
    \/ CplInsert(t)

SpecConc == Init /\ [][NextConc]_vars

\* C2: as long as no device call has failed, whatever the interleaving, the
\* library of a key is compiled at most once, the pipeline state of a key is
\* constructed at most once, and every handle a call has returned for a key
\* is the one the cache holds for that key.
C2_ConcurrentFirstLookupBuildsOnce ==
  failures = 0 =>
    /\ \A k \in DOMAIN compileCount : compileCount[k] <= 1
    /\ \A k \in DOMAIN buildCount : buildCount[k] <= 1
    /\ \A t \in Threads : \A r \in returned[t] :
         r[1] \in DOMAIN cplMap /\ cplMap[r[1]] = r[2]

\* --------------------------------- SpecDispatch: the autograd fallback
\* Dispatch keys are named as the registrations name them.  A backend key
\* stands for the kernels of a device; "Other" stands for a backend that
\* shares the AutogradOther key.
Backends == {"Other", "CPU", "XPU", "CUDA", "XLA", "Lazy", "MPS", "Meta", "HPU"}

AutogradKey(b) == "Autograd" \o b

AutogradKeys == {AutogradKey(b) : b \in Backends}

\* the backend fallback each TORCH_LIBRARY_IMPL(_, key, m) block registers
BackendFallback(k) ==
  CASE k = "AutogradOther" -> "autograd_fallback"
    [] k = "AutogradCPU" -> "autograd_fallback"
    [] k = "AutogradXPU" -> "autograd_fallback"
    [] k = "AutogradCUDA" -> "autograd_fallback"
    [] k = "AutogradXLA" -> "autograd_fallback"
    [] k = "AutogradLazy" -> "autograd_fallback"
    [] k = "AutogradMPS" -> "autograd_fallback"
    [] k = "AutogradMeta" -> "autograd_fallback"
    [] k = "ADInplaceOrView" -> "fallthrough"
    [] k = "AutogradHPU" -> "autograd_fallback"
    [] OTHER -> "none"

\* the dispatcher serves the autograd keys first, then ADInplaceOrView, then
\* the backend keys
Priority(k) ==
  IF k \in AutogradKeys THEN 3 ELSE IF k = "ADInplaceOrView" THEN 2 ELSE 1

highestPriorityTypeId(ks) ==
  CHOOSE k \in ks : \A j \in ks : Priority(j) <= Priority(k)

\* c10::after_autograd_keyset : every key served after the autograd keys
after_autograd_keyset == Backends \cup {"ADInplaceOrView"}

\* the boxed arguments of a call
Stacks == {<<"self">>, <<"self", "other">>}

\* one step of serving a call: what ran (ev), under which key, and the key
\* set and stack it was handed
Event(ev, key, keys, stack) ==
  [ev |-> ev, key |-> key, keys |-> keys, stack |-> stack]

RECURSIVE Dispatch(_, _, _)

autograd_fallback_no_return(op, dispatch_keys, stack) ==
  LET ks == dispatch_keys \cap after_autograd_keyset
      r == Dispatch(op, ks, stack)
  IN  IF ~hasHooks
      THEN [trace |-> <<Event("redispatchBoxed", "", ks, stack)>> \o r.trace
                      \o <<Event("basic_autograd_not_implemented_fallback",
                                 "", dispatch_keys, r.stack)>>,
            stack |-> <<"hooks">> \o r.stack]
      ELSE [trace |-> <<Event("basic_autograd_not_implemented_fallback",
                              "", dispatch_keys, stack)>>,
            stack |-> <<"hooks">> \o stack]

\* Without variable hooks: redispatch under the keys after the autograd
\* keys and return.  With hooks: hand the call to the hooks, whose result is
\* marked "hooks".
autograd_fallback(op, dispatch_keys, stack) ==
  IF ~hasHooks
  THEN LET ks == dispatch_keys \cap after_autograd_keyset
           r == Dispatch(op, ks, stack)
       IN  [trace |-> <<Event("redispatchBoxed", "", ks, stack)>> \o r.trace,
            stack |-> r.stack]
  ELSE [trace |-> <<Event("basic_autograd_not_implemented_fallback",
                          "", dispatch_keys, stack)>>,
        stack |-> <<"hooks">> \o stack]

\* The dispatcher serving op under the key set ks: the operator's own kernel
\* for the highest key, else the backend fallback registered for that key;
\* a fallthrough passes on to the next key.  A kernel's result is marked
\* with the key it ran under.
Dispatch(op, ks, stack) ==
  IF ks = {}
  THEN [trace |-> <<Event("no kernel", "", ks, stack)>>, stack |-> stack]
  ELSE LET k == highestPriorityTypeId(ks)
       IN  IF k \in op.kernels
           THEN [trace |-> <<Event("kernel", k, ks, stack)>>,
                 stack |-> <<k>> \o stack]
           ELSE IF BackendFallback(k) = "autograd_fallback"
           THEN LET r == autograd_fallback(op, ks, stack)
                IN  [trace |-> <<Event("autograd_fallback", k, ks, stack)>>
                                \o r.trace,
                     stack |-> r.stack]
           ELSE IF BackendFallback(k) = "fallthrough"
           THEN LET r == Dispatch(op, ks \ {k}, stack)
                IN  [trace |-> <<Event("fallthrough", k, ks, stack)>>
                                \o r.trace,
                     stack |-> r.stack]
           ELSE [trace |-> <<Event("no kernel", k, ks, stack)>>,
                 stack |-> stack]

\* One boxed call of an operator on tensors of backend b.  The operator has
\* kernels of its own under any of the backend key and its autograd key;
\* the key set holds the backend key, the autograd key unless autograd is
\* excluded for the call, and ADInplaceOrView when view is set.
CallBoxed ==
  \E b \in Backends, grad \in BOOLEAN, view \in BOOLEAN, stack \in Stacks :
  \E kernels \in SUBSET {b, AutogradKey(b)} :
    LET op == [kernels |-> kernels]
        ks == {b} \cup (IF grad THEN {AutogradKey(b)} ELSE {})
                  \cup (IF view THEN {"ADInplaceOrView"} ELSE {})
        r == Dispatch(op, ks, stack)
    IN  /\ dlast' = [op |-> op, keys |-> ks, stack |-> stack,
                     hooks |-> hasHooks, trace |-> r.trace, out |-> r.stack]
        /\ UNCHANGED <<hasHooks, cacheVars, hostVars, threadVars, kernelVars>>

\* the autograd library is loaded and installs its variable hooks
SetVariableHooks ==
  /\ ~hasHooks
  /\ hasHooks' = TRUE
  /\ UNCHANGED <<dlast, cacheVars, hostVars, threadVars, kernelVars>>

NextDispatch == CallBoxed \/ SetVariableHooks

SpecDispatch == Init /\ [][NextDispatch]_vars

\* how many steps of the trace t are ev
Count(t, ev) == Cardinality({i \in DOMAIN t : t[i].ev = ev})

\* the autograd keys the fallback is stated for
FallbackKeys ==
  {"AutogradOther", "AutogradCPU", "AutogradXPU", "AutogradCUDA",
   "AutogradXLA", "AutogradLazy", "AutogradMPS", "AutogradMeta",
   "AutogradHPU"}

\* the last call held the autograd key k and the operator has no kernel for k
Unhandled(k) ==
  /\ dlast # NoDispatch
  /\ k \in dlast.keys
  /\ k \notin dlast.op.kernels

\* C11: each of the keys AutogradOther, AutogradCPU, AutogradXPU,
\* AutogradCUDA, AutogradXLA, AutogradLazy, AutogradMPS, AutogradMeta and
\* AutogradHPU has autograd_fallback as its fallback and ADInplaceOrView has
\* a fallthrough.  A call whose operator has no kernel for its autograd key
\* enters autograd_fallback first and exactly once, with the call's key set
\* and stack.  Without hooks the fallback redispatches exactly once, under
\* the call's keys minus the autograd keys and with the same stack, never
\* calls the hooks, an ADInplaceOrView key is passed through, and the
\* backend kernel (when the operator has one) runs exactly once on the
\* call's stack.  With hooks the fallback calls
\* basic_autograd_not_implemented_fallback exactly once with the call's key
\* set and stack and nothing else: no redispatch, no kernel.
C11_FallbackRedispatchesOrDelegatesOnce ==
  /\ \A k \in FallbackKeys : BackendFallback(k) = "autograd_fallback"
  /\ BackendFallback("ADInplaceOrView") = "fallthrough"
  /\ \A k \in FallbackKeys :
       Unhandled(k) =>
         LET t == dlast.trace
             below == dlast.keys \ FallbackKeys
             hook == "basic_autograd_not_implemented_fallback"
         IN  /\ t[1] = Event("autograd_fallback", k, dlast.keys, dlast.stack)
             /\ Count(t, "autograd_fallback") = 1
             /\ ~dlast.hooks =>
                  /\ t[2] = Event("redispatchBoxed", "", below, dlast.stack)
                  /\ Count(t, "redispatchBoxed") = 1
                  /\ Count(t, hook) = 0
                  /\ "ADInplaceOrView" \in dlast.keys =>
                       t[3] = Event("fallthrough", "ADInplaceOrView", below,
                                    dlast.stack)
                  /\ \A b \in Backends :
                       b \in dlast.keys /\ b \in dlast.op.kernels =>
                         /\ t[Len(t)] = Event("kernel", b, {b}, dlast.stack)
                         /\ Count(t, "kernel") = 1
                         /\ dlast.out = <<b>> \o dlast.stack
             /\ dlast.hooks =>
                  /\ t = <<t[1], Event(hook, "", dlast.keys, dlast.stack)>>
                  /\ Count(t, "redispatchBoxed") = 0
                  /\ Count(t, "kernel") = 0

\* a call on MPS tensors, with ADInplaceOrView in the key set and no hooks
\* installed, of an operator that has an MPS kernel only: the fallback, its
\* redispatch, the fallthrough and the MPS kernel ran, in this order
C11_Witness ==
  /\ Unhandled("AutogradMPS")
  /\ ~dlast.hooks
  /\ dlast.keys = {"MPS", "AutogradMPS", "ADInplaceOrView"}
  /\ dlast.op.kernels = {"MPS"}
  /\ Len(dlast.trace) = 4
  /\ dlast.trace[4].ev = "kernel"
  /\ dlast.trace[4].key = "MPS"

=============================================================================
